---- MODULE Spec2Model ----
(***************************************************************************)
(* Model of pythonController/testNetworkCommands.py: the MultiCamController *)
(* device registry, the per-connection send_command / _handle_file_download *)
(* exchange, and the threaded broadcast send_command_to_all.                *)
(***************************************************************************)
EXTENDS Integers, Sequences, FiniteSets, TLC

VARIABLES
    discovered_devices, \* insertion-ordered dict: sequence of slots (Hole = deleted entry)
    browser,            \* TRUE once the ServiceBrowser has been started
    now,                \* last value read from time.time()
    mainpc,             \* position of the main thread
    bcast,              \* locals of the running send_command_to_all or
                        \* check_clock_synchronization
    calls,              \* one record per running/finished send_command execution
    results,            \* the results dict of the running call
    ret,                \* what the last top-level call handed back to its caller
    disk,               \* files under ~/Downloads/multiCam: path -> bytes written
    notified,           \* discovery notifications delivered during the running command
    last_file_ids,      \* self.last_file_ids: device name -> file id of the last stop
    last_downloaded_files   \* self.last_downloaded_files: list of local paths

vars == <<discovered_devices, browser, now, mainpc, bcast, calls, results, ret, disk,
          notified, last_file_ids, last_downloaded_files>>

\* the fields interactive_mode keeps between commands
kept == <<last_file_ids, last_downloaded_files>>

(***************************************************************************)
(* Bounds of the model.                                                    *)
(***************************************************************************)
MaxNow == 2          \* the clock stops advancing here
MaxFileSize == 2     \* largest fileSize a header declares
MaxNotified == 1     \* discovery notifications that may interleave with one command
MaxClockSteps == 2   \* round trips the clock may advance by during the sync checks

(***************************************************************************)
(* Program constants.                                                      *)
(***************************************************************************)
NoneTS == -1                 \* timestamp=None
DefaultPort == 8080
HeaderLenBytes == 4          \* sock.recv(4)
SingleRecvBuf == 4096        \* sock.recv(4096)
ChunkRecvBuf == 8192         \* sock.recv(8192) / min(8192, ...)
GoodBelowMs == 50            \* if max_diff < 50
ModerateBelowMs == 200       \* elif max_diff < 200
JsonNull == -2               \* a JSON null where a number is expected

BroadcastCommands == {"START_RECORDING", "STOP_RECORDING", "DEVICE_STATUS", "LIST_FILES"}
ServiceNames == {"camA"}
ServiceIps == {"10.0.0.1"}
ManualIps == {"10.0.0.2"}
SyncDelays == {3}
ExplicitTimestamps == {0, 2}
FileIds == {"abc123"}

\* services that announce themselves, the addresses they announce, and the
\* addresses and ports the user connects to by hand
AnnouncedNames == {"camA", "camB"}
AnnouncedIps == {"10.0.0.1", "10.0.0.4"}
ConnectIps == {"10.0.0.2", "10.0.0.3"}
ConnectPorts == {DefaultPort, DefaultPort + 1}

Min(a, b) == IF a < b THEN a ELSE b

Max(a, b) == IF a > b THEN a ELSE b

Abs(x) == IF x < 0 THEN 0 - x ELSE x

(***************************************************************************)
(* The clock of the sync check.  A float of seconds is held as its number  *)
(* of milliseconds, so that x * 1000, the number of milliseconds the code  *)
(* computes, is the held number itself; round trips are even, which keeps  *)
(* round_trip_time / 2 exact.                                              *)
(***************************************************************************)
SyncEpoch == 100000          \* time.time() = 100.000 when the program starts
RoundTripMs == 40            \* what the clock advances by between two readings

SyncClock == { SyncEpoch + k * RoundTripMs : k \in 0..MaxClockSteps }

\* device clock minus controller clock, in milliseconds
ClockSkews == {0, 50, 200, 201}

(***************************************************************************)
(* JSON values and the byte streams that carry them.  A byte stream is a   *)
(* sequence of tokens <<kind, text>>; json.dumps writes one token per      *)
(* key/value pair and one for the closing brace, json.loads succeeds only  *)
(* on a complete text.                                                     *)
(***************************************************************************)
JsonKeys == <<"fileId", "timestamp", "fileName", "fileSize">>

JsonObj(ks, fid, ts, fn, fs) ==
    [keys |-> ks, fileId |-> fid, timestamp |-> ts, fileName |-> fn, fileSize |-> fs]

NoObj == JsonObj({"<none>"}, "", 0, "", 0)

\* control responses a device may send
Responses ==
    { JsonObj({"fileId"}, "abc123", 0, "", 0),
      JsonObj({"fileId"}, "", 0, "", 0),
      JsonObj({"timestamp"}, "", 3, "", 0) }

\* file-transfer headers a device may send (the last one lacks fileSize)
Headers ==
    { JsonObj({"fileName", "fileSize"}, "", 0, "clip.mp4", n) : n \in 0..MaxFileSize }
    \cup { JsonObj({"fileName"}, "", 0, "clip.mp4", 0) }

\* what a device may answer to the DEVICE_STATUS probe stamped t: its own
\* clock reading, a null timestamp, or a status without timestamp
ProbeReplies(t) ==
    { JsonObj({"timestamp"}, "", t + s, "", 0) : s \in ClockSkews }
    \cup { JsonObj({"timestamp"}, "", JsonNull, "", 0), JsonObj({"fileId"}, "", 0, "", 0) }

JsonValues == Responses \cup Headers \cup UNION { ProbeReplies(t) : t \in SyncClock }

ValueText(o, k) ==
    CASE k = "fileId" -> o.fileId
      [] k = "timestamp" -> IF o.timestamp = JsonNull THEN "null" ELSE ToString(o.timestamp)
      [] k = "fileName" -> o.fileName
      [] k = "fileSize" -> ToString(o.fileSize)

RECURSIVE EncodePairs(_, _)
EncodePairs(o, i) ==
    IF i > Len(JsonKeys) THEN <<>>
    ELSE (IF JsonKeys[i] \in o.keys
             THEN << <<JsonKeys[i], ValueText(o, JsonKeys[i])>> >>
             ELSE <<>>) \o EncodePairs(o, i + 1)

\* json.dumps(...).encode('utf-8')
JsonDumps(o) == EncodePairs(o, 1) \o << <<"}", "">> >>

\* json.loads(data.decode('utf-8')) succeeds
JsonParses(data) == \E o \in JsonValues : JsonDumps(o) = data

\* json.loads(data.decode('utf-8'))
JsonLoads(data) == CHOOSE o \in JsonValues : JsonDumps(o) = data

\* one raw byte
Byte(n) == <<"byte", ToString(n)>>

ByteVal(b) == CHOOSE n \in 0..255 : Byte(n) = b

IsByte(b) == \E n \in 0..255 : Byte(n) = b

\* struct.pack('>I', h) on the device side
PackBE(h) ==
    << Byte((h \div 16777216) % 256), Byte((h \div 65536) % 256),
       Byte((h \div 256) % 256), Byte(h % 256) >>

\* struct.unpack('>I', data)[0]; raises unless data is four raw bytes
CanUnpackBE(data) == Len(data) = 4 /\ \A i \in 1..4 : IsByte(data[i])

UnpackBE(data) ==
    ((ByteVal(data[1]) * 256 + ByteVal(data[2])) * 256 + ByteVal(data[3])) * 256
        + ByteVal(data[4])

RECURSIVE Payload(_)
Payload(n) == IF n = 0 THEN <<>> ELSE <<Byte(120)>> \o Payload(n - 1)

\* [4-byte big-endian length][JSON header bytes][payload of n bytes]
FileStream(h, n) == PackBE(Len(JsonDumps(h))) \o JsonDumps(h) \o Payload(n)

Prefixes(s) == { SubSeq(s, 1, k) : k \in 0..Len(s) }

(***************************************************************************)
(* The registry: self.discovered_devices, a dict.  A dict keeps its entries *)
(* in insertion order; a deletion leaves a hole that only a live iterator  *)
(* can observe, so holes are kept only while the fan-out loop iterates.    *)
(***************************************************************************)
Hole == [name |-> "", ip |-> "", port |-> 0]

Device(n, a, p) == [name |-> n, ip |-> a, port |-> p]

Live(d) == { i \in 1..Len(d) : d[i] # Hole }

DictLen(d) == Cardinality(Live(d))

DictKeys(d) == { d[i].name : i \in Live(d) }

DictIndex(d, n) == CHOOSE i \in Live(d) : d[i].name = n

Compact(d) == SelectSeq(d, LAMBDA e : e # Hole)

\* d[n] = {'ip': a, 'port': p}
DictSet(d, n, a, p) ==
    IF n \in DictKeys(d)
        THEN [d EXCEPT ![DictIndex(d, n)] = Device(n, a, p)]
        ELSE Append(d, Device(n, a, p))

\* del d[n]
DictDel(d, n) == [d EXCEPT ![DictIndex(d, n)] = Hole]

Iterating == mainpc \in {"fanout", "sync", "probe"}

Normalised(d) == IF Iterating THEN d ELSE Compact(d)

ManualName(ip) == "manual-" \o ip

EmptyMap == [n \in {} |-> 0]

\* send_command_to_all's parameters and locals; pos, size and len are the dict iterator
Bcast(c, ts, d, sync, n) ==
    [command |-> c, timestamp |-> ts, sync_delay |-> d, sync_timestamp |-> sync,
     pos |-> 0, size |-> n, len |-> n]

NoBcast == Bcast("", NoneTS, 0, NoneTS, 0)

AllUnitsDone == \A i \in 1..Len(calls) : calls[i].pc = "done"

(***************************************************************************)
(* Discovery: the ServiceBrowser thread calls the listener at any time     *)
(* after discover_devices started it.                                      *)
(***************************************************************************)
DuringCommand == mainpc # "idle" \/ ~AllUnitsDone

CanNotify == browser /\ (DuringCommand => notified < MaxNotified)

Notified == IF DuringCommand THEN notified + 1 ELSE notified

\* MultiCamController.discover_devices
discover_devices ==
    /\ mainpc = "idle"
    /\ ~browser
    /\ browser' = TRUE
    /\ UNCHANGED <<kept, discovered_devices, now, mainpc, bcast, calls, results, ret, disk,
                   notified>>

\* MultiCamListener.add_service
add_service(name, ip) ==
    /\ CanNotify
    /\ discovered_devices' = Normalised(DictSet(discovered_devices, name, ip, DefaultPort))
    /\ notified' = Notified
    /\ UNCHANGED <<kept, browser, now, mainpc, bcast, calls, results, ret, disk>>

\* MultiCamListener.remove_service
remove_service(name) ==
    /\ CanNotify
    /\ name \in DictKeys(discovered_devices)
    /\ discovered_devices' = Normalised(DictDel(discovered_devices, name))
    /\ notified' = Notified
    /\ UNCHANGED <<kept, browser, now, mainpc, bcast, calls, results, ret, disk>>

\* MultiCamController.manual_connect
manual_connect(ip, port) ==
    /\ mainpc = "idle"
    /\ AllUnitsDone
    /\ discovered_devices' = DictSet(discovered_devices, ManualName(ip), ip, port)
    /\ UNCHANGED <<kept, browser, now, mainpc, bcast, calls, results, ret, disk, notified>>

(***************************************************************************)
(* Values returned by send_command: False, True, a str (file id or local   *)
(* path) or a dict (the parsed response).                                  *)
(***************************************************************************)
PyFalse == [kind |-> "False", str |-> "", obj |-> NoObj]
PyTrue == [kind |-> "True", str |-> "", obj |-> NoObj]
PyStr(s) == [kind |-> "str", str |-> s, obj |-> NoObj]
PyDict(o) == [kind |-> "dict", str |-> "", obj |-> o]
NoResult == [kind |-> "pending", str |-> "", obj |-> NoObj]

\* isinstance(result, str)
IsStr(v) == v.kind = "str"

\* the request object of send_command; fileId = "" stands for an absent key
Message(c, ts, fid) == [command |-> c, timestamp |-> ts, deviceId |-> "controller",
                        fileId |-> fid]

NoMessage == Message("", NoneTS, "")

\* MessageDumps without the deviceId pair
MessageDumps_NoDeviceId(m) ==
    << <<"command", m.command>>, <<"timestamp", ToString(m.timestamp)>> >>
    \o (IF m.fileId # "" THEN << <<"fileId", m.fileId>> >> ELSE <<>>)
    \o << <<"}", "">> >>

\* json.dumps(message).encode('utf-8'), the bytes sock.send puts on the wire
MessageDumps(m) ==
    << <<"command", m.command>>, <<"timestamp", ToString(m.timestamp)>>,
       <<"deviceId", m.deviceId>> >>
    \o (IF m.fileId # "" THEN << <<"fileId", m.fileId>> >> ELSE <<>>)
    \o << <<"}", "">> >>

\* the timestamps a request can carry
RequestTimestamps ==
    { t + d : t \in 0..MaxNow, d \in SyncDelays \cup {0} } \cup ExplicitTimestamps

\* the text of key k in the JSON object data, "" if the key is absent
TextOf(data, k) ==
    IF \E j \in 1..Len(data) : data[j][1] = k
       THEN data[CHOOSE j \in 1..Len(data) : data[j][1] = k][2]
       ELSE ""

\* the device reading a request {command, timestamp, deviceId, fileId?}
DeviceLoads(data) ==
    [command |-> TextOf(data, "command"),
     timestamp |-> CHOOSE n \in RequestTimestamps : ToString(n) = TextOf(data, "timestamp"),
     deviceId |-> TextOf(data, "deviceId"),
     fileId |-> TextOf(data, "fileId")]

\* device_ip.replace('.', '_')
DeviceDirName(ip) ==
    CASE ip = "10.0.0.1" -> "10_0_0_1"
      [] ip = "10.0.0.2" -> "10_0_0_2"
      [] ip = "10.0.0.3" -> "10_0_0_3"
      [] OTHER -> "ip"

\* os.path.join(downloads_dir, f"{device_name}_{file_name}")
LocalPath(ip, file_name) == "~/Downloads/multiCam/" \o DeviceDirName(ip) \o "_" \o file_name

\* one execution of send_command (and of the thread that runs it, if any)
NewCall(n, a, p, c, ts, fid, thr) ==
    [ name |-> n, ip |-> a, port |-> p, command |-> c, timestamp |-> ts, file_id |-> fid,
      thread |-> thr,            \* TRUE: run by send_and_store_result
      pc |-> "build", sock |-> "none", message |-> NoMessage, sent |-> FALSE,
      stream |-> <<>>,           \* the bytes the peer delivers before it goes silent
      delivered |-> 0,           \* how many of them recv has handed out
      response_data |-> <<>>, nreads |-> 0, endedBy |-> "",
      spin |-> 0,                \* parity of the loop turns that kept no new byte
      header_size |-> 0, header_data |-> <<>>, file_size |-> 0, bytes_received |-> 0,
      local_path |-> "", result |-> NoResult ]

Pending(u) == SubSeq(u.stream, u.delivered + 1, Len(u.stream))

\* the ways a recv ends once the peer has nothing more to deliver
Ends == {"close", "timeout"}

\* time.time(): the clock never runs backwards
TimeReads == { now, Min(now + 1, MaxNow) }

\* Finish with the thread storing its result only when the call succeeded
Finish_DropFailures(i, u, v, how) ==
    /\ calls' = [calls EXCEPT ![i] = [u EXCEPT !.pc = "done", !.result = v, !.endedBy = how]]
    /\ results' = IF u.thread /\ v # PyFalse
                     THEN [n \in DOMAIN results \cup {u.name} |->
                               IF n = u.name THEN v ELSE results[n]]
                     ELSE results

\* `return v` / the except clause of send_command, followed in a thread by
\* results[device_name] = result
Finish(i, u, v, how) ==
    /\ calls' = [calls EXCEPT ![i] = [u EXCEPT !.pc = "done", !.result = v, !.endedBy = how]]
    /\ results' = IF u.thread
                     THEN [n \in DOMAIN results \cup {u.name} |->
                               IF n = u.name THEN v ELSE results[n]]
                     ELSE results

\* Build with the request stamped by a fresh time.time() instead of the argument
Build_FreshTime(i) ==
    /\ i \in 1..Len(calls)
    /\ calls[i].pc = "build"
    /\ \E t \in TimeReads :
         /\ now' = t
         /\ calls' = [calls EXCEPT ![i] =
                [calls[i] EXCEPT !.message = Message(calls[i].command, t, calls[i].file_id),
                                 !.sock = "created", !.pc = "connect"]]
    /\ UNCHANGED <<kept, discovered_devices, browser, mainpc, bcast, results, ret, disk, notified>>

\* send_command, lines 68-83: build the request, create the socket
Build(i) ==
    /\ i \in 1..Len(calls)
    /\ calls[i].pc = "build"
    /\ LET u == calls[i] IN
       \* timestamp or time.time()
       IF u.timestamp = NoneTS \/ u.timestamp = 0
          THEN \E t \in TimeReads :
                 /\ now' = t
                 /\ calls' = [calls EXCEPT ![i] =
                        [u EXCEPT !.message = Message(u.command, t, u.file_id),
                                  !.sock = "created", !.pc = "connect"]]
          ELSE /\ now' = now
               /\ calls' = [calls EXCEPT ![i] =
                        [u EXCEPT !.message = Message(u.command, u.timestamp, u.file_id),
                                  !.sock = "created", !.pc = "connect"]]
    /\ UNCHANGED <<kept, discovered_devices, browser, mainpc, bcast, results, ret, disk, notified>>

\* the complete byte stream a device sends for the value o
FullStream(command, o) ==
    IF command = "GET_VIDEO" THEN FileStream(o, o.fileSize) ELSE JsonDumps(o)

\* a file transfer whose length prefix declares one byte more than the
\* header the device then sends before it closes
OverDeclared(h) == PackBE(Len(JsonDumps(h)) + 1) \o JsonDumps(h)

\* what a device that accepts the connection delivers: all of it, or only
\* a part of it before it closes or goes silent
PeerStreams(command) ==
    UNION { Prefixes(FullStream(command, o)) :
              o \in (IF command = "GET_VIDEO" THEN Headers ELSE Responses) }
    \cup (IF command = "GET_VIDEO" THEN { OverDeclared(h) : h \in Headers } ELSE {})

\* what a device delivers in answer to the sync check's probe
ProbeStreams(t) == UNION { Prefixes(JsonDumps(o)) : o \in ProbeReplies(t) }

\* send_command, lines 87-93: connect and send
Connect(i) ==
    /\ i \in 1..Len(calls)
    /\ calls[i].pc = "connect"
    /\ LET u == calls[i] IN
       \/ \* sock.connect raises (refused or timed out)
          Finish(i, u, PyFalse, "unreachable")
       \/ \* connected and sent
          \E bytes \in (IF mainpc = "probe" THEN ProbeStreams(u.timestamp)
                                           ELSE PeerStreams(u.command)) :
             /\ calls' = [calls EXCEPT ![i] =
                    [u EXCEPT !.sock = "connected", !.sent = TRUE,
                              !.stream = bytes,
                              !.pc = IF u.command = "GET_VIDEO" THEN "hdrlen" ELSE "recv"]]
             /\ results' = results
    /\ UNCHANGED <<kept, discovered_devices, browser, now, mainpc, bcast, ret, disk, notified>>

\* sizes of the chunk a recv(bufsize) may return while the peer has bytes left
ChunkSizes(u, bufsize) == 1..Min(bufsize, Len(Pending(u)))

Chunk(u, k) == SubSeq(u.stream, u.delivered + 1, u.delivered + k)

Took(u, k) == [u EXCEPT !.delivered = @ + k, !.nreads = @ + 1]

\* Respond with the file id unwrapped whenever the key is present, empty or not
Respond_NoEmptyCheck(i, u, how) ==
    IF u.response_data # <<>>
       THEN IF JsonParses(u.response_data)
               THEN LET response_json == JsonLoads(u.response_data) IN
                    IF u.command = "STOP_RECORDING" /\ "fileId" \in response_json.keys
                       THEN Finish(i, u, PyStr(response_json.fileId), how)
                       ELSE Finish(i, u, PyDict(response_json), how)
               ELSE Finish(i, u, PyFalse, how)
       ELSE Finish(i, [u EXCEPT !.sock = "closed"], PyTrue, how)

\* send_command, lines 123-138: what is returned once response_data is final
Respond(i, u, how) ==
    IF u.response_data # <<>>
       THEN IF JsonParses(u.response_data)
               THEN LET response_json == JsonLoads(u.response_data) IN
                    IF /\ u.command = "STOP_RECORDING"
                       /\ "fileId" \in response_json.keys
                       /\ response_json.fileId # ""
                       THEN Finish(i, u, PyStr(response_json.fileId), how)
                       ELSE Finish(i, u, PyDict(response_json), how)
               ELSE \* json.loads raises, caught at line 140
                    Finish(i, u, PyFalse, how)
       ELSE \* sock.close(); return True
            Finish(i, [u EXCEPT !.sock = "closed"], PyTrue, how)

\* RecvListFiles with each chunk replacing response_data instead of extending it
RecvListFiles_NoAccumulate(i) ==
    /\ i \in 1..Len(calls)
    /\ calls[i].pc = "recv"
    /\ calls[i].command = "LIST_FILES"
    /\ LET u == calls[i] IN
       \/ \E k \in ChunkSizes(u, ChunkRecvBuf) :
             LET v == [Took(u, k) EXCEPT !.response_data = Chunk(u, k)] IN
             IF JsonParses(v.response_data)
                THEN Respond(i, v, "parsed")
                ELSE calls' = [calls EXCEPT ![i] = v] /\ results' = results
       \/ /\ Pending(u) = <<>>
          /\ \/ Respond(i, u, "close")
             \/ Respond(i, u, "timeout")
    /\ UNCHANGED <<kept, discovered_devices, browser, now, mainpc, bcast, ret, disk, notified>>

\* send_command, lines 103-119: the LIST_FILES receive loop, one recv per step
RecvListFiles(i) ==
    /\ i \in 1..Len(calls)
    /\ calls[i].pc = "recv"
    /\ calls[i].command = "LIST_FILES"
    /\ LET u == calls[i] IN
       \/ \E k \in ChunkSizes(u, ChunkRecvBuf) :
             LET v == [Took(u, k) EXCEPT !.response_data = @ \o Chunk(u, k)] IN
             IF JsonParses(v.response_data)
                THEN Respond(i, v, "parsed")
                ELSE calls' = [calls EXCEPT ![i] = v] /\ results' = results
       \/ /\ Pending(u) = <<>>
          /\ \/ Respond(i, u, "close")        \* if not chunk: break
             \/ Respond(i, u, "timeout")      \* except socket.timeout: break
    /\ UNCHANGED <<kept, discovered_devices, browser, now, mainpc, bcast, ret, disk, notified>>

\* bytes that complete no JSON text, whatever precedes or follows them
Junk == <<"junk", "">>

HasJunk(data) == \E j \in 1..Len(data) : data[j] = Junk

\* send_command, lines 106-117, for a peer that keeps sending bytes which
\* never complete a JSON text: recv returns some of them, response_data grows
\* and json.loads fails again.  Of these bytes only the first is kept.
RecvFlood(i) ==
    /\ i \in 1..Len(calls)
    /\ calls[i].pc = "recv"
    /\ calls[i].command = "LIST_FILES"
    /\ Pending(calls[i]) = <<>>
    /\ calls' = [calls EXCEPT ![i] =
           [calls[i] EXCEPT !.response_data = IF HasJunk(@) THEN @ ELSE Append(@, Junk),
                            !.spin = 1 - @]]
    /\ UNCHANGED <<kept, discovered_devices, browser, now, mainpc, bcast, results, ret, disk,
                   notified>>

\* send_command, line 121: the single recv of the other control commands
RecvOnce(i) ==
    /\ i \in 1..Len(calls)
    /\ calls[i].pc = "recv"
    /\ calls[i].command # "LIST_FILES"
    /\ LET u == calls[i] IN
       \/ \E k \in ChunkSizes(u, SingleRecvBuf) :
             Respond(i, [Took(u, k) EXCEPT !.response_data = Chunk(u, k)], "read")
       \/ /\ Pending(u) = <<>>
          /\ \/ Respond(i, u, "close")
             \/ Finish(i, u, PyFalse, "timeout")   \* socket.timeout, caught at line 140
    /\ UNCHANGED <<kept, discovered_devices, browser, now, mainpc, bcast, ret, disk, notified>>

(***************************************************************************)
(* _handle_file_download                                                   *)
(***************************************************************************)
\* the except clause, lines 204-207
DownloadFailed(i, u, how) == Finish(i, [u EXCEPT !.sock = "closed"], PyFalse, how)

\* lines 200-202, reached when the payload loop is left
DownloadReturns(i, u, how) ==
    Finish(i, [u EXCEPT !.sock = "closed"], PyStr(u.local_path), how)

\* open(local_path, 'wb') creates or truncates the file
Created(path) == [p \in DOMAIN disk \cup {path} |-> IF p = path THEN 0 ELSE disk[p]]

\* lines 166-188: parse the header, name and open the local file
ParseHeader(i, u, how) ==
    IF ~JsonParses(u.header_data)
       THEN DownloadFailed(i, u, IF how = "close" THEN "hdrclosed" ELSE "badheader")
            /\ disk' = disk
       ELSE LET header_info == JsonLoads(u.header_data) IN
            IF ~({"fileName", "fileSize"} \subseteq header_info.keys)
               THEN DownloadFailed(i, u, "badheader") /\ disk' = disk
               ELSE LET v == [u EXCEPT !.file_size = header_info.fileSize,
                                       !.local_path = LocalPath(u.ip, header_info.fileName)]
                    IN /\ disk' = Created(v.local_path)
                       /\ IF v.bytes_received < v.file_size
                             THEN /\ calls' = [calls EXCEPT ![i] = [v EXCEPT !.pc = "payload"]]
                                  /\ results' = results
                             ELSE DownloadReturns(i, v, how)

\* lines 150-156: read the header size
RecvHeaderSize(i) ==
    /\ i \in 1..Len(calls)
    /\ calls[i].pc = "hdrlen"
    /\ LET u == calls[i] IN
       \/ \E k \in ChunkSizes(u, HeaderLenBytes) :
             LET header_size_data == Chunk(u, k)
                 v == Took(u, k)
             IN IF Len(header_size_data) # HeaderLenBytes
                   THEN Finish(i, v, PyFalse, "shortlen") /\ disk' = disk
                   ELSE IF ~CanUnpackBE(header_size_data)
                           THEN DownloadFailed(i, v, "error") /\ disk' = disk
                           ELSE LET w == [v EXCEPT !.header_size = UnpackBE(header_size_data)]
                                IN IF Len(w.header_data) < w.header_size
                                      THEN /\ calls' = [calls EXCEPT ![i] =
                                                            [w EXCEPT !.pc = "hdr"]]
                                           /\ results' = results
                                           /\ disk' = disk
                                      ELSE ParseHeader(i, w, "parsed")
       \/ /\ Pending(u) = <<>>
          /\ disk' = disk
          /\ \/ Finish(i, u, PyFalse, "close")     \* recv returns b"", len != 4
             \/ DownloadFailed(i, u, "timeout")
    /\ UNCHANGED <<kept, discovered_devices, browser, now, mainpc, bcast, ret, notified>>

\* RecvHeader without `if not chunk: break`: on a closed stream the loop
\* turns again
RecvHeader_NoBreak(i) ==
    /\ i \in 1..Len(calls)
    /\ calls[i].pc = "hdr"
    /\ LET u == calls[i] IN
       \/ \E k \in ChunkSizes(u, u.header_size - Len(u.header_data)) :
             LET v == [Took(u, k) EXCEPT !.header_data = @ \o Chunk(u, k)] IN
             IF Len(v.header_data) < v.header_size
                THEN calls' = [calls EXCEPT ![i] = v] /\ results' = results /\ disk' = disk
                ELSE ParseHeader(i, v, "parsed")
       \/ /\ Pending(u) = <<>>
          /\ \/ /\ calls' = [calls EXCEPT ![i] = [u EXCEPT !.spin = 1 - @]]
                /\ results' = results /\ disk' = disk
             \/ DownloadFailed(i, u, "timeout") /\ disk' = disk
    /\ UNCHANGED <<kept, discovered_devices, browser, now, mainpc, bcast, ret, notified>>

\* lines 159-164: the header loop, one recv per step
RecvHeader(i) ==
    /\ i \in 1..Len(calls)
    /\ calls[i].pc = "hdr"
    /\ LET u == calls[i] IN
       \/ \E k \in ChunkSizes(u, u.header_size - Len(u.header_data)) :
             LET v == [Took(u, k) EXCEPT !.header_data = @ \o Chunk(u, k)] IN
             IF Len(v.header_data) < v.header_size
                THEN calls' = [calls EXCEPT ![i] = v] /\ results' = results /\ disk' = disk
                ELSE ParseHeader(i, v, "parsed")
       \/ /\ Pending(u) = <<>>
          /\ \/ ParseHeader(i, u, "close")          \* if not chunk: break
             \/ DownloadFailed(i, u, "timeout") /\ disk' = disk
    /\ UNCHANGED <<kept, discovered_devices, browser, now, mainpc, bcast, ret, notified>>

\* RecvPayload with bytes_received counting chunks instead of bytes
RecvPayload_CountChunks(i) ==
    /\ i \in 1..Len(calls)
    /\ calls[i].pc = "payload"
    /\ LET u == calls[i] IN
       \/ \E k \in ChunkSizes(u, Min(ChunkRecvBuf, u.file_size - u.bytes_received)) :
             LET v == [Took(u, k) EXCEPT !.bytes_received = @ + 1] IN
             /\ disk' = [disk EXCEPT ![u.local_path] = @ + k]
             /\ IF v.bytes_received < v.file_size
                   THEN calls' = [calls EXCEPT ![i] = v] /\ results' = results
                   ELSE DownloadReturns(i, v, "complete")
       \/ /\ Pending(u) = <<>>
          /\ disk' = disk
          /\ \/ DownloadReturns(i, u, "close")
             \/ DownloadFailed(i, u, "timeout")
    /\ UNCHANGED <<kept, discovered_devices, browser, now, mainpc, bcast, ret, notified>>

\* lines 187-198: the payload loop, one recv per step
RecvPayload(i) ==
    /\ i \in 1..Len(calls)
    /\ calls[i].pc = "payload"
    /\ LET u == calls[i] IN
       \/ \E k \in ChunkSizes(u, Min(ChunkRecvBuf, u.file_size - u.bytes_received)) :
             LET v == [Took(u, k) EXCEPT !.bytes_received = @ + k] IN
             /\ disk' = [disk EXCEPT ![u.local_path] = @ + k]      \* f.write(chunk)
             /\ IF v.bytes_received < v.file_size
                   THEN calls' = [calls EXCEPT ![i] = v] /\ results' = results
                   ELSE DownloadReturns(i, v, "complete")
       \/ /\ Pending(u) = <<>>
          /\ disk' = disk
          /\ \/ DownloadReturns(i, u, "close")      \* if not chunk: break
             \/ DownloadFailed(i, u, "timeout")
    /\ UNCHANGED <<kept, discovered_devices, browser, now, mainpc, bcast, ret, notified>>

(***************************************************************************)
(* send_command_to_all                                                     *)
(***************************************************************************)
\* what a top-level call handed back: nothing yet ("none"), None, a dict
\* ("map"), a single value ("value"), or an exception ("raised")
Ret(k, m, v) == [kind |-> k, map |-> m, value |-> v]

NoRet == Ret("none", EmptyMap, NoResult)

\* lines 211-227: the guard, the timestamp, the empty thread list and results
StartBroadcast(command, timestamp, sync_delay) ==
    /\ mainpc = "idle"
    /\ AllUnitsDone
    /\ calls' = <<>>
    /\ results' = EmptyMap
    /\ notified' = 0
    /\ IF DictLen(discovered_devices) = 0
          THEN \* if not self.discovered_devices: return
               /\ ret' = Ret("None", EmptyMap, NoResult)
               /\ UNCHANGED <<now, mainpc, bcast>>
          ELSE /\ ret' = NoRet
               /\ mainpc' = "fanout"
               /\ IF command = "START_RECORDING" /\ timestamp = NoneTS
                     THEN \* sync_timestamp = time.time() + sync_delay
                          \E t \in TimeReads :
                            /\ now' = t
                            /\ bcast' = Bcast(command, timestamp, sync_delay, t + sync_delay,
                                              DictLen(discovered_devices))
                     ELSE \* sync_timestamp = timestamp or time.time()
                          IF timestamp = NoneTS \/ timestamp = 0
                             THEN \E t \in TimeReads :
                                    /\ now' = t
                                    /\ bcast' = Bcast(command, timestamp, sync_delay, t,
                                                      DictLen(discovered_devices))
                             ELSE /\ now' = now
                                  /\ bcast' = Bcast(command, timestamp, sync_delay, timestamp,
                                                    DictLen(discovered_devices))
    /\ UNCHANGED <<kept, discovered_devices, browser, disk>>

\* the dict iterator's next entry after position pos, 0 if there is none
NextEntry(d, pos) ==
    IF \E i \in Live(d) : i > pos
       THEN CHOOSE i \in Live(d) : i > pos /\ \A j \in Live(d) : j > pos => i <= j
       ELSE 0

\* the iterator raises RuntimeError when the dict changed under it
IteratorRaises ==
    \/ DictLen(discovered_devices) # bcast.size
    \/ NextEntry(discovered_devices, bcast.pos) # 0 /\ bcast.len = 0

\* lines 233-239: one turn of the loop that starts the threads
FanOut ==
    /\ mainpc = "fanout"
    /\ IF IteratorRaises
          THEN \* RuntimeError leaves send_command_to_all; the started threads run on
               /\ mainpc' = "idle"
               /\ ret' = Ret("raised", EmptyMap, NoResult)
               /\ discovered_devices' = Compact(discovered_devices)
               /\ UNCHANGED <<bcast, calls>>
          ELSE LET idx == NextEntry(discovered_devices, bcast.pos) IN
               IF idx = 0
                  THEN /\ mainpc' = "join"
                       /\ discovered_devices' = Compact(discovered_devices)
                       /\ UNCHANGED <<bcast, calls, ret>>
                  ELSE LET device == discovered_devices[idx] IN
                       /\ calls' = Append(calls,
                              NewCall(device.name, device.ip, device.port, bcast.command,
                                      bcast.sync_timestamp, "", TRUE))
                       /\ bcast' = [bcast EXCEPT !.pos = idx, !.len = @ - 1]
                       /\ UNCHANGED <<discovered_devices, mainpc, ret>>
    /\ UNCHANGED <<kept, browser, now, results, disk, notified>>

\* a join that does not wait for its thread
ThreadJoined_NoWait(t) == t \in 1..Len(calls)

\* thread.join() returns
ThreadJoined(t) == calls[t].pc = "done"

\* lines 248: {name: result for name, result in results.items() if isinstance(result, str)}
FileIdsOf(res) == [n \in { m \in DOMAIN res : IsStr(res[m]) } |-> res[n]]

\* lines 242-257: join every thread, then return
Joined ==
    /\ mainpc = "join"
    /\ \A t \in 1..Len(calls) : ThreadJoined(t)
    /\ mainpc' = "idle"
    /\ ret' = IF bcast.command = "STOP_RECORDING"
                 THEN Ret("map", FileIdsOf(results), NoResult)
                 ELSE Ret("map", results, NoResult)
    /\ UNCHANGED <<discovered_devices, browser, now, bcast, calls, results, disk, notified,
                   last_downloaded_files>>

\* send_command_to_all returns to a caller that drops what it returns
\* (lines 368, 371, 377)
JoinThreads == Joined /\ UNCHANGED last_file_ids

\* lines 373-375: send_command_to_all returns to the stop command, which
\* keeps the dict it returned
StopReturns ==
    /\ bcast.command = "STOP_RECORDING"
    /\ Joined
    /\ last_file_ids' = ret'.map

(***************************************************************************)
(* Direct calls of send_command from interactive_mode.                     *)
(***************************************************************************)
\* lines 273, 385, 403, 460: send_command called from the main thread
DirectCall(device_name, command, timestamp, file_id) ==
    /\ mainpc = "idle"
    /\ AllUnitsDone
    /\ device_name \in DictKeys(discovered_devices)
    /\ LET device == discovered_devices[DictIndex(discovered_devices, device_name)] IN
       calls' = << NewCall(device_name, device.ip, device.port, command, timestamp,
                           file_id, FALSE) >>
    /\ mainpc' = "direct"
    /\ results' = EmptyMap
    /\ ret' = NoRet
    /\ bcast' = NoBcast
    /\ notified' = 0
    /\ UNCHANGED <<kept, discovered_devices, browser, now, disk>>

\* send_command returns to its caller
DirectReturn ==
    /\ mainpc = "direct"
    /\ calls[1].pc = "done"
    /\ mainpc' = "idle"
    /\ ret' = Ret("value", EmptyMap, calls[1].result)
    /\ UNCHANGED <<kept, discovered_devices, browser, now, bcast, calls, results, disk, notified>>

(***************************************************************************)
(* The download-all command of interactive_mode.                           *)
(***************************************************************************)
\* the locals of the download-all branch; todo are the keys of last_file_ids
\* the for loop of line 399 has still to visit
DownloadLocals(ids) ==
    [command |-> "GET_VIDEO", timestamp |-> NoneTS, sync_delay |-> 0,
     sync_timestamp |-> NoneTS, pos |-> 0, size |-> 0, len |-> 0,
     todo |-> DOMAIN ids, device_name |-> "", downloaded_files |-> <<>>]

\* `if file_path:`
Truthy(v) == v.kind \in {"True", "dict"} \/ (v.kind = "str" /\ v.str # "")

\* lines 395-398 and 411-412: the guard and the empty list
download_all ==
    /\ mainpc = "idle"
    /\ AllUnitsDone
    /\ calls' = <<>>
    /\ results' = EmptyMap
    /\ notified' = 0
    /\ IF DOMAIN last_file_ids = {}
          THEN \* No recorded files available
               /\ ret' = Ret("None", EmptyMap, NoResult)
               /\ UNCHANGED <<mainpc, bcast>>
          ELSE /\ ret' = NoRet
               /\ mainpc' = "dlall"
               /\ bcast' = DownloadLocals(last_file_ids)
    /\ UNCHANGED <<kept, discovered_devices, browser, now, disk>>

\* lines 399-403 and 407-410: the head of the loop over last_file_ids.items()
\* and, when the loop is over, the assignment of last_downloaded_files.  The
\* order of that dict is the order in which the threads of the stop stored
\* their results; every order is taken.
DownloadLoop ==
    /\ mainpc = "dlall"
    /\ IF bcast.todo = {}
          THEN /\ mainpc' = "idle"
               /\ ret' = Ret("None", EmptyMap, NoResult)
               /\ last_downloaded_files' =
                     IF bcast.downloaded_files # <<>> THEN bcast.downloaded_files
                                                      ELSE last_downloaded_files
               /\ UNCHANGED <<bcast, calls>>
          ELSE /\ \E device_name \in bcast.todo :
                    IF device_name \in DictKeys(discovered_devices)
                       THEN LET device ==
                                  discovered_devices[DictIndex(discovered_devices, device_name)]
                            IN /\ calls' = << NewCall(device_name, device.ip, device.port,
                                                      "GET_VIDEO", NoneTS,
                                                      last_file_ids[device_name].str, FALSE) >>
                               /\ bcast' = [bcast EXCEPT !.todo = @ \ {device_name},
                                                         !.device_name = device_name]
                               /\ mainpc' = "dlcall"
                       ELSE /\ bcast' = [bcast EXCEPT !.todo = @ \ {device_name}]
                            /\ UNCHANGED <<calls, mainpc>>
               /\ UNCHANGED <<ret, last_downloaded_files>>
    /\ UNCHANGED <<discovered_devices, browser, now, results, disk, notified, last_file_ids>>

\* lines 403-405: send_command returned; a truthy file_path is appended
DownloadReturn ==
    /\ mainpc = "dlcall"
    /\ calls[1].pc = "done"
    /\ LET file_path == calls[1].result IN
       bcast' = [bcast EXCEPT !.downloaded_files =
                     IF Truthy(file_path) THEN Append(@, file_path.str) ELSE @]
    /\ mainpc' = "dlall"
    /\ UNCHANGED <<kept, discovered_devices, browser, now, calls, results, ret, disk, notified>>

(***************************************************************************)
(* check_clock_synchronization                                             *)
(***************************************************************************)
\* time.time() during the sync check
SyncTimeReads ==
    { t \in {now, now + RoundTripMs} : t <= SyncEpoch + MaxClockSteps * RoundTripMs }

\* the locals of check_clock_synchronization; pos, size and len are the dict
\* iterator of line 456, registered the keys the dict had when the loop began
SyncLocals(t, d) ==
    [command |-> "DEVICE_STATUS", timestamp |-> NoneTS, sync_delay |-> 0,
     sync_timestamp |-> NoneTS, pos |-> 0, size |-> DictLen(d), len |-> DictLen(d),
     registered |-> DictKeys(d), controller_send_time |-> t, device_name |-> "",
     send_time |-> 0, receive_time |-> 0,
     max_diff |-> 0, min_diff |-> 0, valid_devices |-> 0]

\* one value of the results dict of check_clock_synchronization
SyncEntry(st, td, rtt, diff) ==
    [status |-> st, device_time |-> td, round_trip_ms |-> rtt, time_diff_ms |-> diff]

\* ProbeEntry with the whole round trip added to the device's timestamp
ProbeEntry_FullRoundTrip(response, send_time, receive_time) ==
    IF response.kind = "dict" /\ "timestamp" \in response.obj.keys
       THEN IF response.obj.timestamp = JsonNull
               THEN SyncEntry("error", 0, 0, 0)
               ELSE LET device_timestamp == response.obj.timestamp
                        round_trip_time == receive_time - send_time
                        estimated_device_time == device_timestamp + round_trip_time
                        time_difference == estimated_device_time - receive_time
                    IN SyncEntry("success", device_timestamp, round_trip_time,
                                 time_difference)
       ELSE SyncEntry("failed", 0, 0, 0)

\* lines 463-481: the entry recorded for one probed device
ProbeEntry(response, send_time, receive_time) ==
    IF response.kind = "dict" /\ "timestamp" \in response.obj.keys
       THEN IF response.obj.timestamp = JsonNull
               THEN \* None + float raises TypeError, caught at line 480
                    SyncEntry("error", 0, 0, 0)
               ELSE LET device_timestamp == response.obj.timestamp
                        round_trip_time == receive_time - send_time
                        estimated_device_time == device_timestamp + (round_trip_time \div 2)
                        time_difference == estimated_device_time - receive_time
                    IN SyncEntry("success", device_timestamp, round_trip_time,
                                 time_difference)
       ELSE SyncEntry("failed", 0, 0, 0)

\* lines 496-514: one turn of the loop over results.items()
Tally(acc, result) ==
    IF result.status = "success"
       THEN LET diff == Abs(result.time_diff_ms) IN
            [max_diff |-> Max(acc.max_diff, diff),
             min_diff |-> IF acc.valid_devices = 0 THEN diff ELSE Min(acc.min_diff, diff),
             valid_devices |-> acc.valid_devices + 1]
       ELSE acc

\* lines 488-514: max_diff, min_diff and valid_devices over the results
RECURSIVE Aggregate(_, _, _)
Aggregate(res, todo, acc) ==
    IF todo = {} THEN acc
    ELSE LET n == CHOOSE m \in todo : TRUE
         IN Aggregate(res, todo \ {n}, Tally(acc, res[n]))

\* Summary with a classification as soon as one device answered
Summary_FromOneDevice(valid_devices, max_diff) ==
    IF valid_devices >= 1
       THEN IF max_diff < GoodBelowMs THEN "good"
            ELSE IF max_diff < ModerateBelowMs THEN "moderate"
            ELSE "poor"
       ELSE "no response"

\* lines 518-533: the summary line
Summary(valid_devices, max_diff) ==
    IF valid_devices >= 2
       THEN IF max_diff < GoodBelowMs THEN "good"
            ELSE IF max_diff < ModerateBelowMs THEN "moderate"
            ELSE "poor"
       ELSE IF valid_devices = 1 THEN "insufficient data"
       ELSE "no response"

\* lines 445-453: the guard, the empty results, controller_send_time
check_clock_synchronization ==
    /\ mainpc = "idle"
    /\ AllUnitsDone
    /\ calls' = <<>>
    /\ results' = EmptyMap
    /\ notified' = 0
    /\ IF DictLen(discovered_devices) = 0
          THEN \* if not self.discovered_devices: return
               /\ ret' = Ret("None", EmptyMap, NoResult)
               /\ bcast' = NoBcast
               /\ UNCHANGED <<now, mainpc>>
          ELSE /\ ret' = NoRet
               /\ mainpc' = "sync"
               /\ \E t \in SyncTimeReads :
                     /\ now' = t
                     /\ bcast' = SyncLocals(t, discovered_devices)
    /\ UNCHANGED <<kept, discovered_devices, browser, disk>>

\* lines 456-460 and 483-533: the head of the probing loop; when the loop
\* is over, the report
SyncLoop ==
    /\ mainpc = "sync"
    /\ IF IteratorRaises
          THEN \* RuntimeError leaves check_clock_synchronization
               /\ mainpc' = "idle"
               /\ ret' = Ret("raised", EmptyMap, NoResult)
               /\ discovered_devices' = Compact(discovered_devices)
               /\ UNCHANGED <<bcast, calls, now>>
          ELSE LET idx == NextEntry(discovered_devices, bcast.pos) IN
               IF idx = 0
                  THEN LET acc == Aggregate(results, DOMAIN results,
                                      [max_diff |-> 0, min_diff |-> 0, valid_devices |-> 0])
                       IN /\ mainpc' = "idle"
                          /\ bcast' = [bcast EXCEPT !.max_diff = acc.max_diff,
                                                    !.min_diff = acc.min_diff,
                                                    !.valid_devices = acc.valid_devices]
                          /\ ret' = Ret("report", results,
                                        PyStr(Summary(acc.valid_devices, acc.max_diff)))
                          /\ discovered_devices' = Compact(discovered_devices)
                          /\ UNCHANGED <<calls, now>>
                  ELSE LET device == discovered_devices[idx] IN
                       \E send_time \in SyncTimeReads :
                          /\ now' = send_time
                          /\ calls' = << NewCall(device.name, device.ip, device.port,
                                                 "DEVICE_STATUS", send_time, "", FALSE) >>
                          /\ bcast' = [bcast EXCEPT !.pos = idx, !.len = @ - 1,
                                                    !.device_name = device.name,
                                                    !.send_time = send_time]
                          /\ mainpc' = "probe"
                          /\ UNCHANGED <<discovered_devices, ret>>
    /\ UNCHANGED <<kept, browser, results, disk, notified>>

\* lines 461-481: send_command returned; receive_time and the device's entry
ProbeReturn ==
    /\ mainpc = "probe"
    /\ calls[1].pc = "done"
    /\ \E receive_time \in SyncTimeReads :
          /\ now' = receive_time
          /\ bcast' = [bcast EXCEPT !.receive_time = receive_time]
          /\ results' = [n \in DOMAIN results \cup {bcast.device_name} |->
                            IF n = bcast.device_name
                               THEN ProbeEntry(calls[1].result, bcast.send_time, receive_time)
                               ELSE results[n]]
    /\ mainpc' = "sync"
    /\ UNCHANGED <<kept, discovered_devices, browser, calls, ret, disk, notified>>

Init ==
    /\ discovered_devices = <<>>
    /\ browser = FALSE
    /\ now = 1
    /\ mainpc = "idle"
    /\ bcast = NoBcast
    /\ calls = <<>>
    /\ results = EmptyMap
    /\ ret = NoRet
    /\ disk = EmptyMap
    /\ notified = 0
    /\ last_file_ids = EmptyMap
    /\ last_downloaded_files = <<>>

DeviceNames == ServiceNames \cup { ManualName(ip) : ip \in ManualIps }

RegistryStep ==
    \/ discover_devices
    \/ \E name \in ServiceNames, ip \in ServiceIps : add_service(name, ip)
    \/ \E name \in ServiceNames : remove_service(name)
    \/ \E ip \in ManualIps : manual_connect(ip, DefaultPort)

\* at most one send_command runs per registered device
UnitIds == 1..Cardinality(DeviceNames)

ControlStep ==
    \/ \E i \in UnitIds : Build(i)
    \/ \E i \in UnitIds : Connect(i)
    \/ \E i \in UnitIds : RecvListFiles(i)
    \/ \E i \in UnitIds : RecvOnce(i)

DownloadStep ==
    \/ \E i \in UnitIds : RecvHeaderSize(i)
    \/ \E i \in UnitIds : RecvHeader(i)
    \/ \E i \in UnitIds : RecvPayload(i)

\* the controller broadcasting to the registry while discovery runs
Next ==
    \/ RegistryStep
    \/ \E c \in BroadcastCommands, ts \in {NoneTS} \cup ExplicitTimestamps, d \in SyncDelays :
          StartBroadcast(c, ts, d)
    \/ FanOut
    \/ JoinThreads
    \/ ControlStep

Spec == Init /\ [][Next]_vars

\* the controller talking to one device at a time
NextLink ==
    \/ RegistryStep
    \/ \E n \in DeviceNames : DirectCall(n, "LIST_FILES", NoneTS, "")
    \/ \E n \in DeviceNames, ts \in ExplicitTimestamps : DirectCall(n, "DEVICE_STATUS", ts, "")
    \/ \E n \in DeviceNames, f \in FileIds : DirectCall(n, "GET_VIDEO", NoneTS, f)
    \/ DirectReturn
    \/ ControlStep
    \/ DownloadStep

LinkSpec == Init /\ [][NextLink]_vars

\* one step of the thread, or of the main thread, that runs send_command i
UnitStep(i) ==
    \/ Build(i)
    \/ Connect(i)
    \/ RecvListFiles(i)
    \/ RecvFlood(i)
    \/ RecvOnce(i)
    \/ RecvHeaderSize(i)
    \/ RecvHeader(i)
    \/ RecvPayload(i)

\* broadcasts and downloads against peers that may keep sending; every call
\* is given its timestamp, so that none reads the clock
NextLive ==
    \/ \E ip \in ConnectIps : manual_connect(ip, DefaultPort)
    \/ \E ts \in ExplicitTimestamps \ {0}, d \in SyncDelays :
          StartBroadcast("LIST_FILES", ts, d)
    \/ FanOut
    \/ JoinThreads
    \/ \E ip \in ManualIps, ts \in ExplicitTimestamps \ {0} :
          DirectCall(ManualName(ip), "DEVICE_STATUS", ts, "")
    \/ \E ip \in ManualIps, ts \in ExplicitTimestamps \ {0}, f \in FileIds :
          DirectCall(ManualName(ip), "GET_VIDEO", ts, f)
    \/ DirectReturn
    \/ \E i \in UnitIds : UnitStep(i)

\* every thread that can run does run; a blocking recv returns with bytes,
\* with b"" or with socket.timeout
LiveSpec ==
    /\ Init /\ [][NextLive]_vars
    /\ WF_vars(FanOut) /\ WF_vars(JoinThreads) /\ WF_vars(DirectReturn)
    /\ \A i \in UnitIds : WF_vars(UnitStep(i))

\* the program started when the clock showed SyncEpoch
SyncInit ==
    /\ discovered_devices = <<>>
    /\ browser = FALSE
    /\ now = SyncEpoch
    /\ mainpc = "idle"
    /\ bcast = NoBcast
    /\ calls = <<>>
    /\ results = EmptyMap
    /\ ret = NoRet
    /\ disk = EmptyMap
    /\ notified = 0
    /\ last_file_ids = EmptyMap
    /\ last_downloaded_files = <<>>

\* the controller checking the clocks of the registry while discovery runs
NextSync ==
    \/ RegistryStep
    \/ check_clock_synchronization
    \/ SyncLoop
    \/ \E i \in UnitIds : Build(i)
    \/ \E i \in UnitIds : Connect(i)
    \/ \E i \in UnitIds : RecvOnce(i)
    \/ ProbeReturn

SyncSpec == SyncInit /\ [][NextSync]_vars

\* the registry under discovery and manual connects, no command running
NextRegistry ==
    \/ discover_devices
    \/ \E name \in AnnouncedNames, ip \in AnnouncedIps : add_service(name, ip)
    \/ \E name \in AnnouncedNames : remove_service(name)
    \/ \E ip \in ConnectIps, port \in ConnectPorts : manual_connect(ip, port)

RegistrySpec == Init /\ [][NextRegistry]_vars

\* the stop, download and download-all commands while discovery runs
NextDownload ==
    \/ discover_devices
    \/ \E name \in ServiceNames, ip \in ServiceIps : add_service(name, ip)
    \/ \E name \in ServiceNames : remove_service(name)
    \/ \E d \in SyncDelays : StartBroadcast("STOP_RECORDING", NoneTS, d)
    \/ FanOut
    \/ StopReturns
    \/ \E n \in ServiceNames, f \in FileIds : DirectCall(n, "GET_VIDEO", NoneTS, f)
    \/ DirectReturn
    \/ download_all
    \/ DownloadLoop
    \/ DownloadReturn
    \/ \E i \in UnitIds : Build(i)
    \/ \E i \in UnitIds : Connect(i)
    \/ \E i \in UnitIds : RecvOnce(i)
    \/ DownloadStep

DownloadSpec == Init /\ [][NextDownload]_vars

(***************************************************************************)
(* Properties                                                              *)
(***************************************************************************)
Units == 1..Len(calls)

\* the devices one broadcast targeted: those it started a thread for
Targeted == { calls[i].name : i \in { j \in Units : calls[j].thread } }

Returned == ret.kind = "map"

C2_OneSharedTimestamp ==
    (bcast.command = "START_RECORDING" /\ bcast.timestamp = NoneTS) =>
        /\ bcast.sync_timestamp - bcast.sync_delay \in 1..now
        /\ \A i \in Units :
              calls[i].message # NoMessage =>
                 calls[i].message.timestamp = bcast.sync_timestamp

\* two requests of one synchronized start are on the wire, built at different
\* clock readings
C2_Witness ==
    /\ bcast.command = "START_RECORDING" /\ bcast.timestamp = NoneTS
    /\ Len(calls) = 2
    /\ calls[1].pc = "done" /\ calls[1].sent
    /\ calls[2].pc = "recv"

ThreadUnits == { i \in Units : calls[i].thread }

Done(i) == calls[i].pc = "done"

\* the client read a complete JSON response
Responded(i) == Done(i) /\ JsonParses(calls[i].response_data)

Unreachable(i) == Done(i) /\ calls[i].endedBy = "unreachable"

InMap(name, v) == name \in DOMAIN ret.map /\ ret.map[name] = v

\* C3 as stated: when a broadcast is over in which some devices were
\* unreachable and all the others answered normally, the call has not raised,
\* each unreachable device's entry is the failure value and each answering
\* device's entry is the result of its call.
C3_FailureIsolated ==
    ( /\ bcast.command # "" /\ mainpc = "idle" /\ AllUnitsDone
      /\ \E i \in ThreadUnits : Unreachable(i)
      /\ \E i \in ThreadUnits : Responded(i)
      /\ \A i \in ThreadUnits : Unreachable(i) \/ Responded(i) )
    => /\ ret.kind = "map"
       /\ \A i \in ThreadUnits :
             /\ Unreachable(i) => InMap(calls[i].name, PyFalse)
             /\ Responded(i) => InMap(calls[i].name, calls[i].result)

HasFileId(o) == "fileId" \in o.keys /\ o.fileId # ""

StopReturned == Returned /\ bcast.command = "STOP_RECORDING"

C5_SocketClosedOnReturn ==
    \A i \in Units : Done(i) => calls[i].sock # "connected"

\* C6 as stated: a file transfer whose peer closes the stream before fileSize
\* payload bytes were received returns the failure value, not the local path.
C6_TruncatedPayloadFails ==
    \A i \in Units :
        ( /\ Done(i) /\ calls[i].command = "GET_VIDEO"
          /\ calls[i].local_path # "" /\ calls[i].endedBy = "close"
          /\ calls[i].bytes_received < calls[i].file_size )
        => calls[i].result = PyFalse

WellFormedHeaders == { h \in Headers : {"fileName", "fileSize"} \subseteq h.keys }

C8_ReturnsAfterAllFinished ==
    Returned =>
        \A i \in ThreadUnits :
            /\ Done(i)
            /\ calls[i].name \in DOMAIN results
            /\ results[calls[i].name] = calls[i].result

\* a broadcast to two devices has returned
C8_Witness == Returned /\ Cardinality(ThreadUnits) = 2

\* C9 as stated: a control command whose peer closes, or whose read times
\* out, before the bytes read parse as JSON returns the failure value.
C9_NoParseIsFailure ==
    \A i \in Units :
        ( /\ Done(i) /\ calls[i].command # "GET_VIDEO"
          /\ calls[i].endedBy \in {"close", "timeout"}
          /\ ~JsonParses(calls[i].response_data) )
        => calls[i].result = PyFalse

\* the value send_command returns for the parsed response o
ValueOf(command, o) ==
    IF command = "STOP_RECORDING" /\ HasFileId(o) THEN PyStr(o.fileId) ELSE PyDict(o)

\* the peer delivers a complete JSON response
PeerComplete(i) == Done(i) /\ calls[i].sent /\ JsonParses(calls[i].stream)

\* C10 as stated: for every control command a complete response yields the
\* parsed object however it is split over reads.
C10_AnyCommandReassembles ==
    \A i \in Units :
        (PeerComplete(i) /\ calls[i].command # "GET_VIDEO")
        => calls[i].result = ValueOf(calls[i].command, JsonLoads(calls[i].stream))

\* C10 amended: for LIST_FILES a complete response yields the parsed object
\* however it is split over reads; for the other control commands the one
\* read decides: the whole response yields its value, a part of it yields
\* the failure value.
C10_OnlyListFilesReassembles ==
    \A i \in Units :
        (PeerComplete(i) /\ calls[i].command # "GET_VIDEO") =>
            IF calls[i].command = "LIST_FILES" \/ calls[i].response_data = calls[i].stream
               THEN calls[i].result = ValueOf(calls[i].command, JsonLoads(calls[i].stream))
               ELSE calls[i].nreads = 1 /\ calls[i].result = PyFalse

\* one broadcast in which a device's LIST_FILES response was received in two
\* reads; the single-read case is the one C10_AnyCommandReassembles fails on
C10_Witness ==
    \E i \in Units :
        /\ PeerComplete(i) /\ calls[i].command = "LIST_FILES" /\ calls[i].nreads >= 2
        /\ calls[i].result.kind = "dict"

\* C11 as stated: when the peer delivers at least the four bytes of the
\* length prefix, the transfer does not fail for a short prefix, in however
\* many reads those four bytes arrive.
C11_SplitPrefixDecoded ==
    \A i \in Units :
        ( /\ Done(i) /\ calls[i].command = "GET_VIDEO" /\ calls[i].sent
          /\ Len(calls[i].stream) >= HeaderLenBytes )
        => calls[i].endedBy # "shortlen"

\* the header loop was left, or never entered, without a usable header: fewer
\* bytes than the prefix declared, bytes that do not parse, or a field missing
NoUsableHeader(i) ==
    \/ Len(calls[i].header_data) < calls[i].header_size
    \/ ~JsonParses(calls[i].header_data)
    \/ ~({"fileName", "fileSize"} \subseteq JsonLoads(calls[i].header_data).keys)

\* C19 as stated: a file transfer that ends without all declared header bytes
\* received and parsed into fileName and fileSize returns the failure value
\* and has opened no destination file.
C19_NoFileWithoutFullHeader ==
    \A i \in Units :
        (Done(i) /\ calls[i].command = "GET_VIDEO" /\ NoUsableHeader(i))
        => calls[i].result = PyFalse /\ calls[i].local_path = ""

\* C20 as stated: in a broadcast other than a START_RECORDING without
\* timestamp, every request carries the caller's timestamp T when one was
\* given, 0 included, and otherwise one clock reading taken once.
C20_CallerTimestampKept ==
    (bcast.command # "" /\ ~(bcast.command = "START_RECORDING" /\ bcast.timestamp = NoneTS))
    => \A i \in ThreadUnits :
          calls[i].message # NoMessage =>
             IF bcast.timestamp # NoneTS
                THEN calls[i].message.timestamp = bcast.timestamp
                ELSE /\ calls[i].message.timestamp = bcast.sync_timestamp
                     /\ bcast.sync_timestamp \in 1..now

\* the sync check printed its report
Reported == ret.kind = "report"

\* the devices the report lists as successfully probed
SuccessNames == { n \in DOMAIN ret.map : ret.map[n].status = "success" }

AbsDiffs == { Abs(ret.map[n].time_diff_ms) : n \in SuccessNames }

\* the maximum absolute clock difference M over the successful devices
MaxAbsDiff == CHOOSE m \in AbsDiffs : \A d \in AbsDiffs : d <= m

MinAbsDiff == CHOOSE m \in AbsDiffs : \A d \in AbsDiffs : m <= d

SummaryLine == ret.value.str

\* C12 as stated: with at least two successfully probed devices the
\* classification is "good" for M < 50, "moderate" for 50 <= M <= 200 and
\* "poor" for M > 200, M being the maximum absolute clock difference in ms.
C12_ThresholdsInclusive ==
    (Reported /\ Cardinality(SuccessNames) >= 2) =>
        SummaryLine = IF MaxAbsDiff < 50 THEN "good"
                      ELSE IF MaxAbsDiff <= 200 THEN "moderate"
                      ELSE "poor"

\* the device probed last has a success entry
LastProbeSucceeded ==
    /\ mainpc = "sync"
    /\ bcast.device_name \in DOMAIN results
    /\ results[bcast.device_name].status = "success"

\* C13: the entry of a successfully probed device holds the device's
\* timestamp td, roundTripMs = t1 - t0 and clockDiffMs = td + (t1 - t0)/2 - t1
\* (all in milliseconds), t0 and t1 being the clock readings before and after
\* its probe; for td = 100.000, t0 = 100.000, t1 = 100.040 that is -20 ms.
C13_EstimatorFormula ==
    LastProbeSucceeded =>
        LET e == results[bcast.device_name]
            t0 == bcast.send_time
            t1 == bcast.receive_time
            td == JsonLoads(calls[1].response_data).timestamp
        IN /\ e.device_time = td
           /\ e.round_trip_ms = t1 - t0
           /\ 2 * e.time_diff_ms = 2 * td - t0 - t1
           /\ (td = 100000 /\ t0 = 100000 /\ t1 = 100040) => e.time_diff_ms = -20

\* the probe of the example: sent at 100.000, answered with 100.000, received
\* at 100.040
C13_Witness ==
    /\ LastProbeSucceeded
    /\ bcast.send_time = 100000 /\ bcast.receive_time = 100040
    /\ results[bcast.device_name] = SyncEntry("success", 100000, 40, -20)

\* C14: the report classifies the synchronization as good, moderate or poor
\* exactly when at least two devices were successfully probed; with one it
\* says "insufficient data" and with none "no response".
C14_ClassifiedFromTwoDevices ==
    Reported =>
        LET valid == Cardinality(SuccessNames) IN
        /\ SummaryLine \in {"good", "moderate", "poor"} <=> valid >= 2
        /\ valid = 1 => SummaryLine = "insufficient data"
        /\ valid = 0 => SummaryLine = "no response"

\* two devices were registered and probed, one of them successfully
C14_Witness ==
    /\ Reported
    /\ Cardinality(DOMAIN ret.map) = 2
    /\ Cardinality(SuccessNames) = 1
    /\ SummaryLine = "insufficient data"

\* a sync check that got past its empty-registry guard is over
SyncOver == bcast.command = "DEVICE_STATUS" /\ mainpc = "idle"

\* C15 as stated: when a sync check is over, its report has one entry for
\* every device that was registered, and the devices without a success entry
\* count neither in valid_devices nor in the maximum or minimum difference.
C15_EveryDeviceReported ==
    SyncOver =>
        /\ Reported
        /\ DOMAIN ret.map = bcast.registered
        /\ bcast.valid_devices = Cardinality(SuccessNames)
        /\ bcast.max_diff = IF SuccessNames = {} THEN 0 ELSE MaxAbsDiff
        /\ bcast.min_diff = IF SuccessNames = {} THEN 0 ELSE MinAbsDiff

\* self.discovered_devices[n]
Entry(d, n) == d[DictIndex(d, n)]

\* C16 as stated: no step changes the address or port stored under a name
\* that is in the registry before and after the step.
C16_EntriesImmutable ==
    [][\A n \in DictKeys(discovered_devices) \cap DictKeys(discovered_devices') :
          Entry(discovered_devices', n) = Entry(discovered_devices, n)]_vars

AllCommands == BroadcastCommands \cup {"GET_VIDEO"}

\* the request send_command builds from its arguments
RequestOf(u) ==
    Message(u.command,
            IF u.timestamp = NoneTS \/ u.timestamp = 0 THEN u.message.timestamp
                                                        ELSE u.timestamp,
            u.file_id)

\* decoding the encoding of a request, or of a response, gives it back
CodecRoundTrip ==
    /\ \A c \in AllCommands, ts \in RequestTimestamps, f \in FileIds \cup {""} :
          DeviceLoads(MessageDumps(Message(c, ts, f))) = Message(c, ts, f)
    /\ \A o \in Responses : JsonParses(JsonDumps(o)) /\ JsonLoads(JsonDumps(o)) = o

\* the request a device decodes is the request that was built and encoded
RequestRoundTrip ==
    /\ CodecRoundTrip
    /\ \A i \in Units :
          calls[i].sent =>
             /\ calls[i].message = RequestOf(calls[i])
             /\ DeviceLoads(MessageDumps(calls[i].message)) = calls[i].message

Quiescent == mainpc = "idle" /\ AllUnitsDone

\* C18 as stated: every Device Link call and every broadcast eventually
\* returns.
C18_EveryCallReturns == []<>Quiescent

\* a LIST_FILES loop has just read more bytes that complete no JSON text
Flooded == \E i \in Units : calls[i].pc = "recv" /\ calls[i].spin = 1

\* C18 amended: every Device Link call and every broadcast eventually
\* returns, unless a peer keeps delivering bytes that never complete a JSON
\* text to a LIST_FILES receive loop.
C18_ReturnsUnlessFlooded == []<>(Quiescent \/ Flooded)

\* a broadcast returned after a LIST_FILES loop that had read such bytes was
\* ended by the timeout
C18_Witness ==
    /\ Returned
    /\ \E i \in Units : HasJunk(calls[i].response_data) /\ calls[i].endedBy = "timeout"

\* send_command i returns in this step
Returns(i) == i \in Units /\ Len(calls') = Len(calls) /\ ~Done(i) /\ calls'[i].pc = "done"

\* results with results[n] = v added
Stored(res, n, v) == [m \in DOMAIN res \cup {n} |-> IF m = n THEN v ELSE res[m]]

\* a call is being set up: the results dict of line 227 is a new one
Starting == mainpc = "idle" /\ AllUnitsDone

\* what one step may do to the results dict and to the units: a thread whose
\* send_command returns stores the result under its own device name, which
\* no one has written before; nothing else writes the dict; a request once
\* sent is not sent again; and a step of one unit leaves the other units, the
\* registry and the locals of the broadcast as they are
OneWritePerUnit ==
    /\ \A i \in Units :
          (Returns(i) /\ calls[i].thread) =>
              /\ calls[i].name \notin DOMAIN results
              /\ results' = Stored(results, calls[i].name, calls'[i].result)
    /\ (results' # results /\ ~Starting) => \E i \in Units : Returns(i) /\ calls[i].thread
    /\ \A i \in Units :
          (Len(calls') = Len(calls) /\ calls'[i] # calls[i]) =>
              /\ calls[i].sent => calls'[i].sent /\ calls'[i].message = calls[i].message
              /\ calls'[i].name = calls[i].name /\ calls'[i].ip = calls[i].ip
              /\ calls'[i].port = calls[i].port
              /\ \A j \in Units \ {i} : calls'[j] = calls[j]
              /\ UNCHANGED <<discovered_devices, mainpc, bcast, ret, disk>>

\* the fan-out loop of the running broadcast was left, normally or by an
\* exception
FanOutOver == mainpc = "join" \/ ret.kind \in {"map", "raised"}

\* the threads of the running broadcast: no two for one device, each with
\* the address registered under its device's name and at most one request,
\* which is the broadcast's; and, once the loop that starts them is over, as
\* many threads as the registry had devices when the broadcast began
OneUnitPerDevice ==
    /\ \A i, j \in ThreadUnits : calls[i].name = calls[j].name => i = j
    /\ \A i \in ThreadUnits :
          /\ calls[i].name \in DictKeys(discovered_devices) =>
                /\ Entry(discovered_devices, calls[i].name).ip = calls[i].ip
                /\ Entry(discovered_devices, calls[i].name).port = calls[i].port
          /\ calls[i].sent =>
                calls[i].message = Message(bcast.command, bcast.sync_timestamp, "")
          /\ Done(i) => calls[i].name \in DOMAIN results
    /\ FanOutOver => Cardinality(ThreadUnits) = bcast.size

\* C21 as stated: a broadcast starts exactly one thread per targeted device;
\* each thread sends one request, to its own device, and writes the result
\* map exactly once, under its own device name; under every interleaving no
\* entry is written twice or overwritten, and a thread changes nothing else
\* that another thread or the main thread uses.
C21_OneUnitOneWrite == []OneUnitPerDevice /\ [][OneWritePerUnit]_vars

\* how the send_command of a control command failed, "" if it did not:
\* sock.connect raised, or what was read until the peer closed or the read
\* timed out is no JSON text
FailureKind(i) ==
    IF ~Done(i) \/ calls[i].command = "GET_VIDEO" THEN ""
    ELSE IF Unreachable(i) THEN "Unreachable"
    ELSE IF ~JsonParses(calls[i].response_data) THEN "MalformedResponse"
    ELSE ""

\* C22 as stated: the value a failed call leaves in the result identifies the
\* kind of failure, so two calls that failed in different ways never have the
\* same result value.
C22_FailureKindsDistinct ==
    \A i, j \in Units :
        (FailureKind(i) # "" /\ FailureKind(j) # "" /\ FailureKind(i) # FailureKind(j))
        => calls[i].result # calls[j].result

\* a broadcast that got past its empty-registry guard is over, and so are
\* the threads it started
BroadcastOver == mainpc = "idle" /\ AllUnitsDone /\ ret.kind \in {"map", "raised"}

\* C23 as stated: a discovery notification that interleaves with a running
\* broadcast never makes the call fail or lose entries: when the broadcast is
\* over it has returned, with one result stored for each device that was
\* registered when the fan-out began.
C23_NotificationsHarmless ==
    BroadcastOver =>
        /\ Returned
        /\ Cardinality(DOMAIN results) = bcast.size

\* the download-all loop appends a path in this step
Contributes ==
    /\ mainpc = "dlcall" /\ mainpc' = "dlall"
    /\ Len(bcast'.downloaded_files) > Len(bcast.downloaded_files)

\* the transfer of call u completed: the file at the path it returned holds
\* as many bytes as its header declared
CompleteTransfer(u) ==
    /\ u.local_path # "" /\ u.result = PyStr(u.local_path)
    /\ u.bytes_received = u.file_size
    /\ disk[u.local_path] = u.file_size

\* C24 as stated: only a transfer that completed, the written byte count
\* being the fileSize its header declared, contributes a path to the list
\* download-all builds, and last_downloaded_files is only ever assigned that
\* list.
C24_OnlyCompleteTransfersKept ==
    [][/\ Contributes =>
            /\ CompleteTransfer(calls[1])
            /\ bcast'.downloaded_files = Append(bcast.downloaded_files, calls[1].local_path)
       /\ last_downloaded_files' # last_downloaded_files =>
            mainpc = "dlall" /\ last_downloaded_files' = bcast.downloaded_files]_vars

====
